---- MODULE Spec2Model ----
(***************************************************************************)
(* Model of the SPARC GUI dashboard (src/gui/streamlit/app.py): the        *)
(* session state kept in st.session_state, the project files the handlers  *)
(* read (project directory, architecture/, guidance.toml, the git working  *)
(* copy, architecture/Architecture.md) and the handlers load_project,      *)
(* show_project_status, show_components and main.                          *)
(***************************************************************************)
EXTENDS Naturals, Sequences, FiniteSets, TLC

VARIABLES disk, session, out, registry, db

vars == <<disk, session, out, registry, db>>

(***************************************************************************)
(* Values                                                                  *)
(***************************************************************************)
\* The project paths the handlers are called with.
Paths == {"pA", "pB"}

\* Python's None, and a key that st.session_state does not hold.
None == "None"
Unset == "Unset"

\* Characters of an architecture document.  H stands for the literal text
\* "## Component: " of the pattern; "a" and "b" are word characters (\w);
\* " " and "-" are a space and a punctuation character; "\n" ends a line.
H == "## Component: "
WordChars == {"a", "b"}
NonWordChars == {" ", "-", "\n"}
Chars == {H} \cup WordChars \cup NonWordChars

\* Longest document the parser is run on, and longest document an external
\* edit writes while a session is being refreshed.
MaxDocLen == 4
EditLen == 2

RECURSIVE SeqsUpTo(_, _)
SeqsUpTo(S, n) ==
    IF n = 0 THEN {<<>>}
    ELSE LET shorter == SeqsUpTo(S, n - 1)
         IN  shorter \cup {Append(s, c) : s \in {t \in shorter : Len(t) = n - 1}, c \in S}

Docs(n) == SeqsUpTo(Chars, n)

\* architecture/Architecture.md does not exist.
Absent == <<"ENOENT">>

\* What a project path holds on disk.
\*   dir:      "missing"   the path does not exist
\*             "noarch"    it exists, architecture does not
\*             "archfile"  architecture exists but is a regular file
\*             "emptyarch" architecture is a directory with no entries
\*             "ok"        architecture is a directory with entries
\*   guidance: guidance.toml is "absent", "valid" or "malformed"
\*   git:      "none"       no version-control metadata
\*             "ok"         a repository on a branch with commits
\*             "detached"   a repository whose HEAD is detached
\*             "nocommits"  a freshly initialised repository
\*             "unreadable" metadata that cannot be read
\*   branch, dirty: the checked-out branch and whether tracked files are
\*             modified
\*   doc:      the text of architecture/Architecture.md, or Absent
\* A path that does not exist holds no file and no repository, and the
\* document exists only inside a non-empty architecture directory.
DirKinds == {"missing", "noarch", "archfile", "emptyarch", "ok"}
GuidanceKinds == {"absent", "valid", "malformed"}
GitKinds == {"none", "ok", "detached", "nocommits", "unreadable"}
Branches == {"main", "dev"}

DiskRec(dirs, guids, gits, branches, dirties, docs) ==
    { r \in [dir : dirs, guidance : guids, git : gits, branch : branches,
             dirty : dirties, doc : docs] :
        /\ r.doc # Absent => r.dir = "ok"
        /\ r.dir = "missing" => (r.guidance = "absent" /\ r.git = "none") }

\* A fresh st.session_state: no key is set.
FreshSession ==
    [project_path |-> Unset, components |-> <<>>, components_set |-> FALSE,
     git_repo |-> Unset, guidance |-> Unset, selected_component |-> <<>>]

\* What the last handler returned and rendered.
NoForm == [submitted |-> FALSE, name |-> "", path |-> "", description |-> "",
           init_git |-> FALSE, create_arch |-> FALSE]
Quiet ==
    [op |-> "start", arg |-> None, ret |-> None, msgs |-> {}, raised |-> FALSE,
     comps |-> <<>>, files |-> {}, branch |-> None, commit |-> None,
     modified |-> FALSE, titles |-> <<>>, nav |-> <<>>, sections |-> {},
     page |-> None, form |-> NoForm]

(***************************************************************************)
(* init_session_state                                                      *)
(***************************************************************************)
init_session_state ==
    /\ session' = [session EXCEPT
            !.project_path = IF @ = Unset THEN None ELSE @,
            !.components_set = TRUE,
            !.git_repo = IF @ = Unset THEN None ELSE @]
    /\ out' = [Quiet EXCEPT !.op = "init_session_state"]
    /\ UNCHANGED <<disk, registry, db>>

(***************************************************************************)
(* load_project                                                            *)
(***************************************************************************)
ErrNoDir == "error: Project directory does not exist"
ErrNoArch == "error: No architecture files found. Please initialize project first."
ErrFailed == "error: Failed to load project"
WarnNoGit == "warning: Git repository not initialized"

\* project_dir.exists()
PathExists(d) == d.dir # "missing"

\* ArchitectureCheck without the test for an empty directory.
ArchitectureCheck_existsOnly(d) ==
    CASE d.dir = "noarch" -> "unusable"
      [] d.dir = "archfile" -> "raise"
      [] OTHER -> "usable"

\* not arch_dir.exists() or not any(arch_dir.iterdir()): "usable", "unusable",
\* or "raise" when iterdir() is called on a regular file.
ArchitectureCheck(d) ==
    CASE d.dir = "noarch" -> "unusable"
      [] d.dir = "archfile" -> "raise"
      [] d.dir = "emptyarch" -> "unusable"
      [] OTHER -> "usable"

\* toml.load(f) on guidance.toml of path p: the parsed mapping (named by the
\* file it was parsed from) or a decode error.
toml_load(p, d) ==
    IF d.guidance = "valid" THEN [raised |-> FALSE, value |-> p]
    ELSE [raised |-> TRUE, value |-> Unset]

\* git.Repo(path): the outcomes the constructor can have.  "handle" is a Repo
\* bound to the path, "invalid" is git.InvalidGitRepositoryError, "error" is
\* any other exception.  What unreadable metadata does to the constructor is
\* the library's choice: it may raise either, or read nothing yet.
GitRepoOutcomes(d) ==
    CASE d.git = "none" -> {"invalid"}
      [] d.git = "unreadable" -> {"invalid", "error", "handle"}
      [] OTHER -> {"handle"}

LoadResult(p, ret, msgs) ==
    [Quiet EXCEPT !.op = "load_project", !.arg = p, !.ret = ret, !.msgs = msgs]

\* The guidance step of load_project: the session after it, and whether
\* toml.load raised.
LoadGuidance(s, p, d) ==
    IF d.guidance = "absent" THEN [raised |-> FALSE, session |-> s]
    ELSE LET t == toml_load(p, d)
         IN  IF t.raised THEN [raised |-> TRUE, session |-> s]
             ELSE [raised |-> FALSE, session |-> [s EXCEPT !.guidance = t.value]]

\* The git step of load_project for one outcome of git.Repo(path).
SetupGit(s, p, o) ==
    CASE o = "handle" -> [raised |-> FALSE, warned |-> FALSE,
                          session |-> [s EXCEPT !.git_repo = p]]
      [] o = "invalid" -> [raised |-> FALSE, warned |-> TRUE, session |-> s]
      [] OTHER -> [raised |-> TRUE, warned |-> FALSE, session |-> s]

load_project(path) ==
    LET d == disk[path]
    IN  /\ UNCHANGED <<disk, registry, db>>
        /\ IF ~PathExists(d)
           THEN /\ session' = session
                /\ out' = LoadResult(path, "False", {ErrNoDir})
           ELSE IF ArchitectureCheck(d) = "unusable"
           THEN /\ session' = session
                /\ out' = LoadResult(path, "False", {ErrNoArch})
           ELSE IF ArchitectureCheck(d) = "raise"
           THEN /\ session' = session
                /\ out' = LoadResult(path, "False", {ErrFailed})
           ELSE LET g == LoadGuidance(session, path, d)
                IN  IF g.raised
                    THEN /\ session' = g.session
                         /\ out' = LoadResult(path, "False", {ErrFailed})
                    ELSE \E o \in GitRepoOutcomes(d) :
                           LET r == SetupGit(g.session, path, o)
                           IN  IF r.raised
                               THEN /\ session' = r.session
                                    /\ out' = LoadResult(path, "False", {ErrFailed})
                               ELSE /\ session' = [r.session EXCEPT !.project_path = path]
                                    /\ out' = LoadResult(path, "True",
                                                IF r.warned THEN {WarnNoGit} ELSE {})

(***************************************************************************)
(* show_project_status                                                     *)
(***************************************************************************)
WarnGitOff == "warning: Git not initialized"
WarnDirty == "warning: Uncommitted Changes:"

\* list(arch_dir.glob("*.md")) when arch_dir.exists()
ArchitectureFiles(d) ==
    IF d.dir \in {"archfile", "emptyarch", "ok"} /\ d.doc # Absent
    THEN {"Architecture.md"} ELSE {}

\* The git column for a Repo whose working copy is d now: what is rendered
\* before the column ends or an exception leaves it.  repo.active_branch
\* raises TypeError on a detached HEAD, repo.head.commit raises ValueError in a
\* repository with no commits, and metadata that is gone or unreadable raises
\* on the first read.  The commit at the tip of a branch is named by the branch.
RepoStatus(d) ==
    CASE d.git = "ok" ->
            [raised |-> FALSE, branch |-> d.branch, commit |-> d.branch,
             modified |-> d.dirty]
      [] d.git = "nocommits" ->
            [raised |-> TRUE, branch |-> d.branch, commit |-> None,
             modified |-> FALSE]
      [] OTHER ->
            [raised |-> TRUE, branch |-> None, commit |-> None,
             modified |-> FALSE]

show_project_status ==
    LET base == [Quiet EXCEPT !.op = "show_project_status",
                              !.arg = session.project_path]
    IN  /\ UNCHANGED <<disk, session, registry, db>>
        /\ IF session.project_path \notin Paths
           THEN \* Path(None) raises TypeError; a missing key raises AttributeError
                out' = [base EXCEPT !.raised = TRUE]
           ELSE LET col1 == [base EXCEPT
                                !.files = ArchitectureFiles(disk[session.project_path])]
                IN  IF session.git_repo = Unset
                    THEN out' = [col1 EXCEPT !.raised = TRUE]
                    ELSE IF session.git_repo = None
                    THEN out' = [col1 EXCEPT !.msgs = {WarnGitOff}]
                    ELSE LET r == RepoStatus(disk[session.git_repo])
                         IN  out' = [col1 EXCEPT
                                        !.raised = r.raised,
                                        !.branch = r.branch,
                                        !.commit = r.commit,
                                        !.modified = r.modified,
                                        !.msgs = IF r.modified THEN {WarnDirty} ELSE {}]

(***************************************************************************)
(* show_components                                                         *)
(***************************************************************************)
InfoNoComponents == "info: No components defined in Architecture.md"
ErrNoDocument == "error: Architecture.md not found"

\* The group (\w+) matched at position i: the longest run of word characters.
RECURSIVE WordRun(_, _)
WordRun(s, i) ==
    IF i <= Len(s) /\ s[i] \in WordChars
    THEN <<s[i]>> \o WordRun(s, i + 1)
    ELSE <<>>

\* re.findall(r'## Component: (\w+)', content): the non-overlapping matches,
\* left to right, each reported by its group.
RECURSIVE FindAllFrom(_, _)
FindAllFrom(s, i) ==
    IF i > Len(s) THEN <<>>
    ELSE IF s[i] = H /\ WordRun(s, i + 1) # <<>>
         THEN <<WordRun(s, i + 1)>> \o FindAllFrom(s, i + 1 + Len(WordRun(s, i + 1)))
         ELSE FindAllFrom(s, i + 1)

FindAll(s) == FindAllFrom(s, 1)

\* arch_file.exists()
ArchFileExists(d) == d.doc # Absent

\* RenderComponents reporting an empty result as the missing document.
RenderComponents_errorOnEmpty(names) ==
    IF names # <<>>
    THEN [comps |-> [i \in 1..Len(names) |->
                        [name |-> names[i], status |-> "Status: Implemented"]],
          msgs |-> {}]
    ELSE [comps |-> <<>>, msgs |-> {ErrNoDocument}]

\* What show_components renders for the names found: an expander per name
\* with the status text, or the information message when there is none.
RenderComponents(names) ==
    IF names # <<>>
    THEN [comps |-> [i \in 1..Len(names) |->
                        [name |-> names[i], status |-> "Status: Implemented"]],
          msgs |-> {}]
    ELSE [comps |-> <<>>, msgs |-> {InfoNoComponents}]

\* The architecture document show_components reads.
ArchFileOf(s) == disk[s.project_path]

\* show_components keeping the names of its first parse in
\* st.session_state.components and rendering those from then on.
show_components_cached ==
    LET base == [Quiet EXCEPT !.op = "show_components",
                              !.arg = session.project_path]
    IN  /\ UNCHANGED <<disk, registry, db>>
        /\ IF session.project_path \notin Paths
           THEN /\ out' = [base EXCEPT !.raised = TRUE]
                /\ session' = session
           ELSE IF ArchFileExists(ArchFileOf(session))
           THEN LET names == IF session.components # <<>> THEN session.components
                             ELSE FindAll(ArchFileOf(session).doc)
                    r == RenderComponents(names)
                IN  /\ out' = [base EXCEPT !.comps = r.comps, !.msgs = r.msgs]
                    /\ session' = [session EXCEPT !.components = names]
           ELSE /\ out' = [base EXCEPT !.msgs = {ErrNoDocument}]
                /\ session' = session

show_components ==
    LET base == [Quiet EXCEPT !.op = "show_components",
                              !.arg = session.project_path]
    IN  /\ UNCHANGED <<disk, registry, db>>
        /\ IF session.project_path \notin Paths
           THEN /\ out' = [base EXCEPT !.raised = TRUE]
                /\ session' = session
           ELSE IF ArchFileExists(ArchFileOf(session))
           THEN LET names == FindAll(ArchFileOf(session).doc)
                    r == RenderComponents(names)
                IN  /\ out' = [base EXCEPT !.comps = r.comps, !.msgs = r.msgs]
                    \* st.button is True for the one button clicked, if any
                    /\ \E click \in 0..Len(names) :
                         session' = IF click = 0 THEN session
                                    ELSE [session EXCEPT
                                            !.selected_component = names[click]]
           ELSE /\ out' = [base EXCEPT !.msgs = {ErrNoDocument}]
                /\ session' = session

(***************************************************************************)
(* main: the sidebar navigation, the page chosen and the new-project form    *)
(***************************************************************************)
\* The options of st.radio("Navigation", ...), in order.
Pages == <<"Project", "Code", "Tests", "Settings">>

SidebarTitle == [where |-> "sidebar", text |-> "SPARC GUI"]

\* st.title(...) of each branch of the if/elif chain.
PageTitle(b) ==
    CASE b = "Project" -> "Project Management"
      [] b = "Code" -> "Code Editor"
      [] b = "Tests" -> "Test Runner"
      [] b = "Settings" -> "Settings"

\* The chain written with its last branch as a plain else after separate ifs.
BranchRuns_trailingElse(i, page) ==
    \/ Pages[i] = page
    \/ i = Len(Pages) /\ page # Pages[Len(Pages) - 1]

\* Whether the i-th branch of the chain  if page == "Project" ... elif
\* page == "Code" ... elif page == "Tests" ... elif page == "Settings"  runs:
\* its condition holds and no earlier branch ran.
RECURSIVE BranchRuns(_, _)
BranchRuns(i, page) ==
    /\ Pages[i] = page
    /\ \A j \in 1..(i - 1) : ~BranchRuns(j, page)

\* The page titles set in the main area, in the order of the chain.
RECURSIVE MainTitles(_, _)
MainTitles(i, page) ==
    IF i > Len(Pages) THEN <<>>
    ELSE (IF BranchRuns(i, page)
          THEN <<[where |-> "main", text |-> PageTitle(Pages[i])]>>
          ELSE <<>>) \o MainTitles(i + 1, page)

SuccessCreated == "success: Project created successfully!"
InfoGenerating == "info: Generating architecture files..."
ErrCreate == "error: Failed to create project"
ErrMissingField == "error: Please provide project name and path"
InfoSoon == "info: coming soon"

\* What the form's text inputs and the directories on disk are drawn from.
Names == {"", "n"}
Descriptions == {"d"}
FormPaths == {"", "pA", "pA/", "pB"}

\* str(Path(path)): pathlib drops a trailing separator.
PathStr(path) == IF path = "pA/" THEN "pA" ELSE path

\* The guard testing the path alone.
FormComplete_pathOnly(f) == f.path # ""

\* if name and path: both strings are non-empty.
FormComplete(f) == f.name # "" /\ f.path # ""

\* project_dir.mkdir(parents=True, exist_ok=True)
Mkdir(dk, p) ==
    [dk EXCEPT ![p].dir = IF @ = "missing" THEN "noarch" ELSE @]

\* init_git_repo(path): a new working copy; an existing one is left as it is.
init_git_repo(dk, p) ==
    [dk EXCEPT ![p].git = IF @ = "none" THEN "nocommits" ELSE @]

\* save_project(name, path, description, {}): the record of path is replaced.
save_project(reg, name, p, description) ==
    [reg EXCEPT ![p] = [name |-> name, description |-> description, saved |-> TRUE]]

\* The body of  if st.form_submit_button("Create Project"):  for one outcome
\* of each call that can fail: mk of mkdir ("ok", "raise"), gi of
\* init_git_repo ("ok", "raise"), sv of save_project ("True", "False", "raise").
CreateProject(f, mk, gi, sv) ==
    IF ~FormComplete(f)
    THEN [disk |-> disk, registry |-> registry, msgs |-> {ErrMissingField}]
    ELSE LET p == PathStr(f.path)
             d1 == Mkdir(disk, p)
             d2 == IF f.init_git THEN init_git_repo(d1, p) ELSE d1
         IN  IF mk = "raise"
             THEN [disk |-> disk, registry |-> registry, msgs |-> {ErrCreate}]
             ELSE IF f.init_git /\ gi = "raise"
             THEN [disk |-> d1, registry |-> registry, msgs |-> {ErrCreate}]
             ELSE IF sv = "raise"
             THEN [disk |-> d2, registry |-> registry, msgs |-> {ErrCreate}]
             ELSE IF sv = "False"
             THEN [disk |-> d2, registry |-> registry, msgs |-> {}]
             ELSE [disk |-> d2,
                   registry |-> save_project(registry, f.name, p, f.description),
                   msgs |-> {SuccessCreated} \cup
                            (IF f.create_arch THEN {InfoGenerating} ELSE {})]

\* The outcomes each call of a submitted form can have; a call that is not
\* reached has a single one.
Reached(f) == f.submitted /\ FormComplete(f)
MkdirOutcomes(f) == IF Reached(f) THEN {"ok", "raise"} ELSE {"ok"}
GitInitOutcomes(f) == IF Reached(f) /\ f.init_git THEN {"ok", "raise"} ELSE {"ok"}
SaveOutcomes(f) == IF Reached(f) THEN {"True", "False", "raise"} ELSE {"True"}

Forms ==
    [submitted : BOOLEAN, name : Names, path : FormPaths,
     description : Descriptions, init_git : BOOLEAN, create_arch : BOOLEAN]

main ==
    \E page \in {Pages[i] : i \in 1..Len(Pages)} :
      LET shown == [Quiet EXCEPT
                        !.op = "main", !.page = page, !.nav = Pages,
                        !.titles = <<SidebarTitle>> \o MainTitles(1, page),
                        !.sections = {Pages[i] : i \in {j \in 1..Len(Pages) :
                                                          BranchRuns(j, page)}}]
      IN  IF BranchRuns(1, page)
          THEN \E f \in Forms :
               \E mk \in MkdirOutcomes(f), gi \in GitInitOutcomes(f),
                  sv \in SaveOutcomes(f) :
                 LET r == CreateProject(f, mk, gi, sv)
                 IN  /\ db' = TRUE     \* init_db()
                     /\ UNCHANGED session
                     /\ IF f.submitted
                        THEN /\ disk' = r.disk
                             /\ registry' = r.registry
                             /\ out' = [shown EXCEPT !.form = f, !.msgs = r.msgs]
                        ELSE /\ UNCHANGED <<disk, registry>>
                             /\ out' = shown
          ELSE /\ out' = [shown EXCEPT
                            !.msgs = IF page \in {"Code", "Tests"}
                                     THEN {InfoSoon} ELSE {}]
               /\ UNCHANGED <<disk, session, registry, db>>

(***************************************************************************)
(* The environment: files and repositories change outside the program      *)
(***************************************************************************)
External == [Quiet EXCEPT !.op = "external"]

\* An editor saves, creates or deletes architecture/Architecture.md.
Edits(doc) ==
    IF doc = Absent THEN {<<>>}
    ELSE {Absent}
         \cup {Append(doc, c) : c \in {x \in Chars : Len(doc) < EditLen}}
         \cup (IF doc = <<>> THEN {} ELSE {SubSeq(doc, 1, Len(doc) - 1)})

EditDocument(p) ==
    /\ disk[p].dir = "ok"
    /\ \E d \in Edits(disk[p].doc) : disk' = [disk EXCEPT ![p].doc = d]
    /\ out' = External
    /\ UNCHANGED <<session, registry, db>>

\* git is run in the working copy: a checkout, a detached checkout, an edit
\* of a tracked file, a commit or stash.
RefreshGits == {"none", "ok", "detached"}

RepositoryChange(p) ==
    /\ disk[p].git \in RefreshGits \ {"none"}
    /\ \E g \in RefreshGits \ {"none"}, b \in Branches, m \in BOOLEAN :
         LET r == [disk[p] EXCEPT !.git = g, !.branch = b, !.dirty = m]
         IN  /\ Cardinality({f \in DOMAIN r : r[f] # disk[p][f]}) = 1
             /\ disk' = [disk EXCEPT ![p] = r]
    /\ out' = External
    /\ UNCHANGED <<session, registry, db>>

(***************************************************************************)
(* Specifications                                                          *)
(***************************************************************************)
NoRecord == [name |-> "", description |-> "", saved |-> FALSE]
EmptyRegistry == [p \in Paths |-> NoRecord]

MissingProject ==
    [dir |-> "missing", guidance |-> "absent", git |-> "none", branch |-> "main",
     dirty |-> FALSE, doc |-> Absent]

\* Spec: opening projects.  Every layout of the two project directories; the
\* file system stays as it is while projects are opened and their status shown.
SessionDisks ==
    DiskRec(DirKinds, GuidanceKinds, GitKinds, {"main"}, {FALSE}, {Absent})

Init ==
    /\ disk \in [Paths -> SessionDisks]
    /\ session = FreshSession
    /\ out = Quiet
    /\ registry = EmptyRegistry
    /\ db = FALSE

Next ==
    \/ init_session_state
    \/ \E p \in Paths : load_project(p)
    \/ show_project_status

Spec == Init /\ [][Next]_vars

\* SpecRefresh: a project is opened and refreshed while its architecture
\* document and its working copy change outside the program.
RefreshDisks ==
    DiskRec({"ok"}, {"absent"}, RefreshGits, Branches, BOOLEAN,
            {Absent} \cup Docs(EditLen))

InitRefresh ==
    /\ disk \in {dk \in [Paths -> RefreshDisks \cup {MissingProject}] :
                    dk["pA"] \in RefreshDisks /\ dk["pB"] = MissingProject}
    /\ session = FreshSession
    /\ out = Quiet
    /\ registry = EmptyRegistry
    /\ db = FALSE

NextRefresh ==
    \/ init_session_state
    \/ \E p \in Paths : load_project(p)
    \/ show_components
    \/ show_project_status
    \/ \E p \in Paths : EditDocument(p)
    \/ \E p \in Paths : RepositoryChange(p)

SpecRefresh == InitRefresh /\ [][NextRefresh]_vars

\* SpecParse: show_components on every architecture document of up to
\* MaxDocLen characters, in the session load_project("pA") leaves.
OpenOnA ==
    [FreshSession EXCEPT !.project_path = "pA", !.components_set = TRUE,
                         !.git_repo = None]

InitParse ==
    /\ disk \in {dk \in [Paths -> DiskRec({"ok"}, {"absent"}, {"none"}, {"main"},
                                          {FALSE}, Docs(MaxDocLen))
                                  \cup {MissingProject}] :
                    dk["pA"] # MissingProject /\ dk["pB"] = MissingProject}
    /\ session = OpenOnA
    /\ out = Quiet
    /\ registry = EmptyRegistry
    /\ db = FALSE

NextParse == show_components

SpecParse == InitParse /\ [][NextParse]_vars

\* SpecMain: the page is rendered and the new-project form submitted.
MainDisks ==
    DiskRec({"missing", "noarch"}, {"absent"}, {"none", "ok", "nocommits"},
            {"main"}, {FALSE}, {Absent})

InitMain ==
    /\ disk \in [Paths -> MainDisks]
    /\ session = FreshSession
    /\ out = Quiet
    /\ registry = EmptyRegistry
    /\ db = FALSE

NextMain == main

SpecMain == InitMain /\ [][NextMain]_vars

(***************************************************************************)
(* Properties of load_project (checked under Spec)                         *)
(***************************************************************************)
Opened(p) == out.op = "load_project" /\ out.arg = p /\ out.ret = "True"
Refused(p) == out.op = "load_project" /\ out.arg = p /\ out.ret = "False"

\* The path does not exist, has no architecture subdirectory, or the
\* subdirectory has no entries.
Unusable(d) == d.dir \in {"missing", "noarch", "archfile", "emptyarch"}

\* C1: load_project(p) on a path that does not exist, has no architecture
\* subdirectory or has an empty one returns False and leaves project_path as
\* it was, so a Closed session stays Closed and p is never recorded.
C1_UnusablePathStaysClosed ==
    [][ (out'.op = "load_project" /\ Unusable(disk[out'.arg]))
          => (/\ out'.ret = "False"
              /\ session'.project_path = session.project_path) ]_vars

C1_Witness ==
    /\ \E p \in Paths : Refused(p) /\ disk[p].dir = "emptyarch"
    /\ session.project_path = None

\* C2: load_project(p) on an existing path with a non-empty architecture
\* directory and no version-control metadata returns True with
\* project_path = p, the missing repository giving a warning only.
C2_NoRepositoryStillOpens ==
    \A p \in Paths :
      (out.op = "load_project" /\ out.arg = p
         /\ disk[p].dir = "ok" /\ disk[p].git = "none")
        => (/\ out.ret = "True"
            /\ session.project_path = p
            /\ out.msgs = {WarnNoGit})

\* C3: a guidance file that is present but malformed is reported and does not
\* block opening: on a project that is otherwise loadable (architecture
\* non-empty, repository absent or readable) load_project(p) returns True and
\* the session is Open(p).
C3_MalformedGuidanceStillOpens ==
    \A p \in Paths :
      (out.op = "load_project" /\ out.arg = p
         /\ disk[p].dir = "ok" /\ disk[p].guidance = "malformed"
         /\ disk[p].git \in {"none", "ok"})
        => (out.ret = "True" /\ session.project_path = p)

\* C4: once load_project(p) succeeds, guidance and repository handle come
\* from p alone: no guidance if p has no configuration file, no handle if p
\* has no repository, whatever was opened before.
C4_NoStateAcrossOpens ==
    \A p \in Paths :
      Opened(p)
        => (/\ disk[p].guidance = "absent" => session.guidance = Unset
            /\ disk[p].git = "none" => session.git_repo \in {Unset, None})

\* C8: a working copy that cannot be read (unreadable metadata, no commits,
\* detached HEAD) neither makes load_project fail on an otherwise valid
\* project nor lets an exception escape show_project_status.
C8_UnreadableRepositoryDegrades ==
    /\ \A p \in Paths :
         (out.op = "load_project" /\ out.arg = p /\ disk[p].dir = "ok"
            /\ disk[p].guidance # "malformed"
            /\ disk[p].git \in {"unreadable", "nocommits", "detached"})
           => out.ret = "True"
    /\ (out.op = "show_project_status" /\ session.project_path \in Paths
          /\ session.git_repo \in Paths)
         => ~out.raised

\* C11: a failed open has no effect on the session: whenever load_project(p)
\* returns False, from any session state, project_path, guidance and git_repo
\* hold the values they had before the call.
C11_FailedOpenHasNoEffect ==
    [][ (out'.op = "load_project" /\ out'.ret = "False")
          => (/\ session'.project_path = session.project_path
              /\ session'.guidance = session.guidance
              /\ session'.git_repo = session.git_repo) ]_vars

(***************************************************************************)
(* Properties of show_components (checked under SpecParse and SpecRefresh)   *)
(***************************************************************************)
ShownNames == [i \in 1..Len(out.comps) |-> out.comps[i].name]

\* The document is one heading line: "## Component: " and then a name.
SingleHeading(doc) ==
    /\ doc # Absent
    /\ Len(doc) >= 1
    /\ doc[1] = H
    /\ \A i \in 2..Len(doc) : doc[i] \notin {H, "\n"}

HeadingName(doc) == SubSeq(doc, 2, Len(doc))

\* C5: a well-formed heading "## Component: Name" yields a component named
\* exactly Name with status Implemented; a heading whose name contains a
\* space or punctuation character yields no component at all.
C5_HeadingsParsedExactly ==
    \A p \in Paths :
      (out.op = "show_components" /\ out.arg = p /\ SingleHeading(disk[p].doc))
        => LET n == HeadingName(disk[p].doc)
           IN  /\ (n # <<>> /\ \A i \in 1..Len(n) : n[i] \in WordChars)
                    => out.comps = <<[name |-> n, status |-> "Status: Implemented"]>>
               /\ (\E i \in 1..Len(n) : n[i] \in NonWordChars)
                    => out.comps = <<>>

\* No place of the document holds "## Component: " followed by a word
\* character.
NoHeading(doc) ==
    \A i \in 1..Len(doc) :
      ~(doc[i] = H /\ i < Len(doc) /\ doc[i + 1] \in WordChars)

\* C6: when Architecture.md exists and holds no matching heading the result
\* is no component and the information message, not an error; the not-found
\* error is reported exactly when the file is absent.
C6_EmptyIsNotAnError ==
    \A p \in Paths :
      (out.op = "show_components" /\ out.arg = p)
        => (/\ (ErrNoDocument \in out.msgs) <=> (disk[p].doc = Absent)
            /\ (disk[p].doc # Absent /\ NoHeading(disk[p].doc))
                 => (out.comps = <<>> /\ out.msgs = {InfoNoComponents}))

C6_Witness ==
    \E p \in Paths :
      /\ out.op = "show_components" /\ out.arg = p
      /\ disk[p].doc # Absent
      /\ \E i \in 1..Len(disk[p].doc) : disk[p].doc[i] = H
      /\ out.msgs = {InfoNoComponents}

\* What a refresh shows agrees with the files and the working copy as they
\* are now.
RefreshIsCurrent ==
    /\ \A p \in Paths :
         (out.op = "show_components" /\ out.arg = p /\ disk[p].doc # Absent)
           => ShownNames = FindAll(disk[p].doc)
    /\ \A p \in Paths :
         (out.op = "show_project_status" /\ session.git_repo = p /\ ~out.raised)
           => (/\ out.branch = disk[p].branch
               /\ out.modified = disk[p].dirty
               /\ out.files = ArchitectureFiles(disk[out.arg]))

C7_IncompleteFormChangesNothing ==
    [][ (out'.op = "main" /\ out'.form.submitted
           /\ (out'.form.name = "" \/ out'.form.path = ""))
          => (/\ ErrMissingField \in out'.msgs
              /\ disk' = disk
              /\ registry' = registry) ]_vars

C7_Witness ==
    /\ out.op = "main" /\ out.form.submitted
    /\ out.form.name = "" /\ out.form.path = "pA"
    /\ ErrMissingField \in out.msgs
    /\ disk["pA"].dir = "missing"
    /\ ~registry["pA"].saved

====
